---------------------------- MODULE Spec2Model ----------------------------
(***************************************************************************)
(* ColorNoise: the procedural sound designer engine                        *)
(* (src/js/sound_designer_engine.js, class SoundDesignerEngine).           *)
(*                                                                         *)
(* Numbers.  EQ gains are whole dB.  Effect node parameters are held in    *)
(* thousandths (Milli).  The master gain is an exact fraction <<n, d>> in  *)
(* lowest terms.  Audio samples are held in thousandths (generators) or    *)
(* ten-thousandths (limiter curve).  NaN is a distinguished value that no  *)
(* arithmetic result equals; Null marks a node that does not exist yet.    *)
(*                                                                         *)
(* Platform.  The engine runs on the Web Audio API and the DOM.  Three     *)
(* platform rules are part of the model because the code relies on them:   *)
(*   - assigning a non-finite number to AudioParam.value throws TypeError  *)
(*     (WebIDL float), the parameter keeps its value;                      *)
(*   - a range input sanitises an assigned value into [min, max], and an   *)
(*     unparsable one to the midpoint;                                     *)
(*   - a WaveShaper clamps its input to [-1, 1] and interpolates linearly  *)
(*     between the points of its curve.                                    *)
(***************************************************************************)
EXTENDS Integers, Sequences, FiniteSets, TLC

(* ------------------------------ bounds -------------------------------- *)
\* Number of EQ bands exercised (the first NumBands of eqFrequencies; the
\* program has 10).
NumBands == 2
\* Samples per render block (the program uses 4096 or 8192).
BufferLength == 2
\* togglePlayback invocations that may be suspended at an await at once.
MaxPending == 1
\* Calls of generatePinkNoise followed (row 6 redraws on calls 0 and 64).
MaxPinkCalls == 66
\* Samples the legacy generator renders after a start().
MaxLegacySamples == 4
\* The longest timer, in seconds, that addTime may build.
MaxTimerSeconds == 120
\* User events (play button, timer select) the page handles.
MaxAppEvents == 4
\* Runs of sync-presets.js, and files written or deleted around them.
MaxSyncs == 2
MaxEdits == 4

(* ------------------------------ numbers ------------------------------- *)
Milli == 10 * 100
NaN == 0 - 1000000
Null == 0 - 2000000

Abs(x) == IF x < 0 THEN 0 - x ELSE x
Sign(x) == IF x < 0 THEN 0 - 1 ELSE IF x > 0 THEN 1 ELSE 0
Min2(a, b) == IF a < b THEN a ELSE b
Max2(a, b) == IF a > b THEN a ELSE b

\* Math.max / Math.min of the code: any NaN operand gives NaN.
MathMax(a, b) == IF a = NaN \/ b = NaN THEN NaN ELSE Max2(a, b)
MathMin(a, b) == IF a = NaN \/ b = NaN THEN NaN ELSE Min2(a, b)

\* Division truncating toward zero, as in a float product cut to the grid.
TDiv(a, b) == Sign(a) * (Abs(a) \div b)

RECURSIVE Gcd(_, _)
Gcd(a, b) == IF b = 0 THEN a ELSE Gcd(b, a % b)

RECURSIVE SumSeq(_, _)
\* q[i] + ... + q[Len(q)]
SumSeq(q, i) == IF i > Len(q) THEN 0 ELSE q[i] + SumSeq(q, i + 1)

\* The fraction n/d (d > 0) in lowest terms.
Rat(n, d) == LET g == Gcd(Abs(n), d) IN IF n = 0 THEN <<0, 1>> ELSE <<n \div g, d \div g>>
RatNull == <<0, 0>>
RatLeq(p, q) == p[1] * q[2] <= q[1] * p[2]
RatMax(p, q) == IF RatLeq(p, q) THEN q ELSE p

(* --------------------------- program tables --------------------------- *)
\* this.eqFrequencies (names only), in chain order.
BandNames ==
    <<"subbass", "bass", "lowbass", "lowmid", "mid",
      "uppermid", "lowtreble", "treble", "air", "ultrahigh">>
Bands == 1 .. NumBands

\* const effects = [...] of setupUIEventListeners / exportProfile.
EffectNames == <<"reverb", "spatial", "warmth", "saturation", "dynamics", "modulation">>
Effects == {EffectNames[i] : i \in 1 .. Len(EffectNames)}

\* The noise types generateAudio recognises.
NoiseTypes == {"white", "pink", "brown", "blue", "violet", "gray", "red", "green"}

(* ------------------------------ platform ------------------------------ *)
\* Mutant of ParamThrows: the assignment stores whatever it is given.
ParamNeverThrows(v) == FALSE

\* AudioParam.value = v: TRUE when the assignment throws TypeError.
ParamThrows(v) == v = NaN

\* AudioParam.value = v for a finite v: clamped to the nominal range.
ParamValue(lo, hi, v) == Max2(lo, Min2(hi, v))

\* <input type="range" min=lo max=hi>.value = v.
SliderSet(lo, hi, v) == IF v = NaN THEN (lo + hi) \div 2 ELSE Max2(lo, Min2(hi, v))


(* ------------------------------- state -------------------------------- *)
VARIABLES
    ios,               \* isIOS(): fixed by the device
    audioContext,      \* "null", or the context's state: "suspended", "running"
    iOSUnlocked,       \* this.iOSUnlocked
    scriptNode,        \* "null" | "connected" | "disconnected"
    masterGain,        \* this.masterGain.gain.value as a fraction; RatNull before the graph exists
    iosOutputGain,     \* this.iosOutputGain.gain.value; RatNull when the node does not exist
    eqBands,           \* this.eqBands[i].gain.value in dB; <<>> before createEqualizer
    fx,                \* the effect nodes' parameters (Milli); Null before createEffects
    isPlaying,         \* this.isPlaying
    currentNoiseType,  \* this.currentNoiseType
    eqSlider,          \* DOM: value of the range input eq-<band>
    fxSlider,          \* DOM: value of the range input <effect>
    lastAlert,         \* the last alert() shown: "none" | "loaded" | "error"
    pending,           \* togglePlayback invocations suspended at an await, oldest first
    outputL,           \* the last block written to channel 0
    outputR,           \* the last block written to channel 1
    noiseStates,       \* this.noiseStates (thousandths)
    limiterOut,        \* the last sample leaving the limiter and reaching the destination
    generator,         \* the legacy NoiseGenerator object (js/NoiseGenerator.js)
    timer,             \* the TimerManager object (unnamed/part_001)
    app,               \* the ColorNoiseApp object: isPlaying, isFading, volume, type
    scheduled,         \* the page's live setInterval / setTimeout entries
    presets            \* the Presets folder: its files, presets.json, and the clock

\* The variables of SoundDesignerEngine and its page.
engineVars ==
    <<ios, audioContext, iOSUnlocked, scriptNode, masterGain, iosOutputGain, eqBands, fx,
      isPlaying, currentNoiseType, eqSlider, fxSlider, lastAlert, pending, outputL,
      outputR, noiseStates, limiterOut>>

\* The variables of the other components.
otherVars == <<generator, timer, app, scheduled, presets>>

vars == <<engineVars, otherVars>>

\* The fields every control handler works on, as one value.
Engine ==
    [type |-> currentNoiseType, eq |-> eqBands, mg |-> masterGain, fx |-> fx,
     eqS |-> eqSlider, fxS |-> fxSlider, threw |-> FALSE]

FxNull ==
    [reverbGain |-> Null, dryGain |-> Null, pan |-> Null, warmthFreq |-> Null,
     satGain |-> Null, satCurve |-> Null, ratio |-> Null, threshold |-> Null,
     modGain |-> Null]

(* ------------------------- gain compensation -------------------------- *)
RECURSIVE TotalBoostFrom(_, _)
TotalBoostFrom(eq, i) ==
    IF i > Len(eq) THEN 0
    ELSE (IF eq[i] > 0 THEN eq[i] ELSE 0) + TotalBoostFrom(eq, i + 1)

\* Mutant of TotalBoost: the sum of all band gains, the negative ones too.
TotalBoostAllGains(eq) == SumSeq(eq, 1)

\* let totalBoost = 0; this.eqBands.forEach(band => { if (gain > 0) totalBoost += gain })
TotalBoost(eq) == TotalBoostFrom(eq, 1)

\* compensationFactor: 1.0, or 20 / totalBoost when totalBoost > 20.
CompensationFactor(totalBoost) ==
    IF totalBoost > 20 THEN Rat(20, totalBoost) ELSE Rat(1, 1)

\* updateAutoGainCompensation(): the master gain it leaves.
UpdateAutoGainCompensation(eq, mg) ==
    IF mg # RatNull THEN CompensationFactor(TotalBoost(eq)) ELSE mg

(* ------------------------------ controls ------------------------------ *)
\* updateEQBand(BandNames[i], gainDb)
UpdateEQBand(e, i, gainDb) ==
    IF i \in DOMAIN e.eq
    THEN IF ParamThrows(gainDb)
         THEN [e EXCEPT !.threw = TRUE]
         ELSE LET eq2 == [e.eq EXCEPT ![i] = gainDb]
              IN [e EXCEPT !.eq = eq2, !.mg = UpdateAutoGainCompensation(eq2, e.mg)]
    ELSE e

\* value / 100 scaled by k thousandths: NaN stays NaN.
Scaled(value, k) == IF value = NaN THEN NaN ELSE value * k

\* updateEffect(effectName, value)
UpdateEffect(e, effectName, value) ==
    LET f == e.fx
        thrown == [e EXCEPT !.threw = TRUE]
    IN CASE effectName = "reverb" ->
              IF f.reverbGain # Null /\ f.dryGain # Null
              THEN IF ParamThrows(Scaled(value, 8)) THEN thrown
                   ELSE [e EXCEPT !.fx.reverbGain = value * 8,
                                  !.fx.dryGain = Milli - value * 5]
              ELSE e
         [] effectName = "spatial" ->
              \* on iOS the panner is a gain node: it has no pan parameter
              IF f.pan # Null
              THEN IF ParamThrows(Scaled(value, 6)) THEN thrown
                   ELSE [e EXCEPT !.fx.pan = ParamValue(0 - Milli, Milli, (value - 50) * 6)]
              ELSE e
         [] effectName = "warmth" ->
              IF f.warmthFreq # Null
              THEN IF ParamThrows(MathMax(1000, Scaled(value, 150))) THEN thrown
                   ELSE [e EXCEPT !.fx.warmthFreq =
                                      ParamValue(0, 22050, Max2(1000, 20000 - value * 150))]
              ELSE e
         [] effectName = "saturation" ->
              IF f.satGain # Null
              THEN IF ParamThrows(Scaled(value, 15)) THEN thrown
                   ELSE [e EXCEPT !.fx.satGain = Milli + value * 15,
                                  !.fx.satCurve = value * 8]
              ELSE e
         [] effectName = "dynamics" ->
              IF f.ratio # Null
              THEN IF ParamThrows(Scaled(value, 80)) THEN thrown
                   ELSE [e EXCEPT !.fx.ratio =
                                      ParamValue(Milli, 20 * Milli, Milli + value * 80),
                                  !.fx.threshold =
                                      ParamValue(0 - 100 * Milli, 0, value * 350 - 40 * Milli)]
              ELSE e
         [] effectName = "modulation" ->
              IF f.modGain # Null
              THEN IF ParamThrows(Scaled(value, 3)) THEN thrown
                   ELSE [e EXCEPT !.fx.modGain = value * 3]
              ELSE e
         [] OTHER -> e

\* selectNoiseType(type)
SelectNoiseTypeF(e, type) == [e EXCEPT !.type = type]


(* ----------------------- UI listeners (lines 118-166) ------------------ *)
\* slider.addEventListener('input') of an EQ band: the DOM holds the dragged value.
EQSliderInput(e, i, value) ==
    UpdateEQBand([e EXCEPT !.eqS[i] = value], i, value)

\* numberInput.addEventListener('input') of an EQ band: value = parseFloat(text).
EQNumberInput(e, i, value) ==
    LET clampedValue == MathMax(0 - 30, MathMin(30, value))
    IN UpdateEQBand([e EXCEPT !.eqS[i] = SliderSet(0 - 30, 30, clampedValue)], i, clampedValue)

\* slider.addEventListener('input') of an effect.
FXSliderInput(e, effect, value) ==
    UpdateEffect([e EXCEPT !.fxS[effect] = value], effect, value)

\* numberInput.addEventListener('input') of an effect: value = parseInt(text).
FXNumberInput(e, effect, value) ==
    LET clampedValue == MathMax(0, MathMin(100, value))
    IN UpdateEffect([e EXCEPT !.fxS[effect] = SliderSet(0, 100, clampedValue)], effect,
                    clampedValue)

(* ------------------------------ profiles ------------------------------ *)
\* A profile: hasType/hasEq/hasFx say which of noiseType, eq, effects the JSON has.
\* eq lists the band values in eqFrequencies order, effects maps the six names.

RECURSIVE LoadEQFrom(_, _, _)
\* Object.keys(profile.eq).forEach(...) of loadProfile: an exception ends the loop.
LoadEQFrom(e, eq, i) ==
    IF e.threw \/ i > Len(eq) THEN e
    ELSE LoadEQFrom(UpdateEQBand([e EXCEPT !.eqS[i] = SliderSet(0 - 30, 30, eq[i])], i, eq[i]),
                    eq, i + 1)

RECURSIVE LoadFXFrom(_, _, _)
\* Object.keys(profile.effects).forEach(...) of loadProfile.
LoadFXFrom(e, effects, k) ==
    IF e.threw \/ k > Len(EffectNames) THEN e
    ELSE LET name == EffectNames[k]
         IN LoadFXFrom(UpdateEffect([e EXCEPT !.fxS[name] = SliderSet(0, 100, effects[name])],
                                    name, effects[name]),
                       effects, k + 1)

\* loadProfile(profile)
LoadProfile(e, profile) ==
    LET e1 == IF profile.hasType THEN SelectNoiseTypeF(e, profile.noiseType) ELSE e
        e2 == IF profile.hasEq THEN LoadEQFrom(e1, profile.eq, 1) ELSE e1
    IN IF profile.hasFx THEN LoadFXFrom(e2, profile.effects, 1) ELSE e2

\* exportProfile(): the profile object built from currentNoiseType and the sliders
\* (parseFloat / parseInt of a slider's value, which is a whole number here).
ExportProfile(e) ==
    [hasType |-> TRUE, noiseType |-> e.type,
     hasEq |-> TRUE, eq |-> e.eqS,
     hasFx |-> TRUE, effects |-> e.fxS]

RECURSIVE PresetEQFrom(_, _, _)
\* applyPresetData, eq part: slider.value = value, then the slider's input listener
\* runs with the value the slider holds.
PresetEQFrom(e, eq, i) ==
    IF i > Len(eq) THEN e
    ELSE PresetEQFrom(EQSliderInput(e, i, SliderSet(0 - 30, 30, eq[i])), eq, i + 1)

RECURSIVE PresetFXFrom(_, _, _)
\* applyPresetData, effects part.
PresetFXFrom(e, effects, k) ==
    IF k > Len(EffectNames) THEN e
    ELSE LET name == EffectNames[k]
         IN PresetFXFrom(FXSliderInput(e, name, SliderSet(0, 100, effects[name])),
                         effects, k + 1)

\* PresetLoader.applyPresetData(presetData)
ApplyPresetData(e, presetData) ==
    LET e1 == IF presetData.hasEq THEN PresetEQFrom(e, presetData.eq, 1) ELSE e
    IN IF presetData.hasFx THEN PresetFXFrom(e1, presetData.effects, 1) ELSE e1


(* ------------------------- playback and the graph --------------------- *)
\* The fields togglePlayback and what it calls work on, as one value.  wait names
\* the await the invocation suspends at ("" when it ran to its end).
Playback ==
    [ctx |-> audioContext, unlocked |-> iOSUnlocked, script |-> scriptNode,
     mg |-> masterGain, iosOut |-> iosOutputGain, eq |-> eqBands, fx |-> fx,
     playing |-> isPlaying, alert |-> lastAlert, wait |-> ""]

\* createAudioGraph(): createEqualizer, createEffects, the script processor,
\* connectAudioGraph.  Every await in it resumes in a microtask, before any event.
CreateAudioGraph(g) ==
    [g EXCEPT
       !.mg = Rat(1, 1),
       !.eq = [i \in Bands |-> 0],
       !.fx = [reverbGain |-> 200, dryGain |-> 800,
               pan |-> IF ios THEN Null ELSE 0,
               warmthFreq |-> 8000,
               satGain |-> Milli, satCurve |-> 500,
               ratio |-> 3 * Milli, threshold |-> 0 - 24 * Milli,
               modGain |-> 0],
       !.script = "connected",
       !.iosOut = IF ios THEN Rat(1, 1) ELSE RatNull]

\* ensureIOSAudioRouting()
EnsureIOSAudioRouting(g) ==
    [g EXCEPT
       !.mg = IF g.mg # RatNull THEN RatMax(g.mg, Rat(4, 5)) ELSE g.mg,
       !.iosOut = IF g.iosOut # RatNull THEN Rat(6, 5) ELSE g.iosOut]

\* stop()
Stop(g) == IF g.playing THEN [g EXCEPT !.playing = FALSE] ELSE g

\* play(), from the final state check (line 739) to its end.  A throw is caught by
\* togglePlayback, which alerts.
PlayTail(g) ==
    IF g.ctx # "running" THEN [g EXCEPT !.alert = "error"]
    ELSE LET g1 == IF ios THEN EnsureIOSAudioRouting(g) ELSE g
             g2 == [g1 EXCEPT !.playing = TRUE]
         IN \* line 766 reads this.scriptNode.connected
            IF g2.script = "null" THEN [g2 EXCEPT !.alert = "error"] ELSE g2

\* play(), from the iOS unlock (line 734): unlockIOSAudio awaits a 200 ms timer.
PlayAfterResume(g) ==
    IF ios /\ ~g.unlocked THEN [g EXCEPT !.wait = "playUnlock"] ELSE PlayTail(g)

\* play()
Play(g) ==
    IF g.playing THEN g
    ELSE IF g.ctx = "suspended" THEN [g EXCEPT !.wait = "playResume"]
    ELSE PlayAfterResume(g)

\* togglePlayback(), after the initialisation (line 711).
AfterInit(g) == IF g.playing THEN Stop(g) ELSE Play(g)

\* initAudioContext(), from createAudioGraph (line 194).
InitAfterUnlock(g) == AfterInit(CreateAudioGraph(g))

\* initAudioContext(), from unlockIOSAudio (line 191).
InitAfterResume(g) ==
    IF ios /\ ~g.unlocked THEN [g EXCEPT !.wait = "initUnlock"] ELSE InitAfterUnlock(g)

\* unlockIOSAudio(), after its timer (line 221).
UnlockDone(g) == IF g.ctx = "running" THEN [g EXCEPT !.unlocked = TRUE] ELSE g

\* togglePlayback(), up to its first suspension.  created is what the AudioContext
\* constructor gives: "throws", or the new context's state.
TogglePlaybackStart(g, created) ==
    IF g.ctx = "null"
    THEN IF created = "throws" THEN [g EXCEPT !.alert = "error"]
         ELSE IF created = "suspended"
              THEN [g EXCEPT !.ctx = "suspended", !.wait = "initResume"]
              ELSE InitAfterResume([g EXCEPT !.ctx = "running"])
    ELSE AfterInit(g)

\* A suspended invocation continues.  resolved: whether the awaited resume() resolved.
Continue(g, label, resolved) ==
    CASE label = "initResume" ->
           IF resolved THEN InitAfterResume([g EXCEPT !.ctx = "running"])
           ELSE [g EXCEPT !.alert = "error"]
      [] label = "initUnlock" -> InitAfterUnlock(UnlockDone(g))
      [] label = "playResume" ->
           IF resolved THEN PlayAfterResume([g EXCEPT !.ctx = "running"])
           ELSE [g EXCEPT !.alert = "error"]
      [] label = "playUnlock" -> PlayTail(UnlockDone(g))

\* Which awaits are settled by the same source, in order: resume() promises, timers.
AwaitKind(label) == IF label \in {"initResume", "playResume"} THEN "resume" ELSE "timer"


(* --------------------------- noise generators ------------------------- *)
\* Samples and generator memories are in thousandths.  d is the run of Math.random()
\* results one output sample may consume, in thousandths of [0, 1]: d[1..7] feed the
\* generator (the pink row of index k draws d[k]; the others draw d[1], blue also d[2]) and
\* d[8] feeds the right channel's variation.
Uniform(r) == 2 * r - Milli

\* generateWhiteNoise(): (Math.random() * 2 - 1) * 0.3
GenerateWhiteNoise(r) == TDiv(Uniform(r) * 3, 10)

\* The pink rows the constructor drew.
PinkSeed == [k \in 1 .. 7 |-> IF k % 2 = 0 THEN Milli ELSE 0 - Milli]

\* Rows that all draw on every call.
PinkRowsAlwaysDraw(st, d, index) ==
    [generators |-> [k \in 1 .. 7 |-> IF k >= index THEN Uniform(d[k])
                                      ELSE st.generators[k]],
     counters |-> [k \in 1 .. 7 |-> IF k >= index THEN st.counters[k] + 1
                                    ELSE st.counters[k]]]

RECURSIVE PinkRows(_, _, _)
\* updateRates.forEach((rate, index) => ...) from row index on; rate = 2^(index-1).
PinkRows(st, d, index) ==
    IF index > 7 THEN st
    ELSE LET rate == 2 ^ (index - 1)
             gen == IF st.counters[index] % rate = 0
                    THEN Uniform(d[index])
                    ELSE st.generators[index]
         IN PinkRows([generators |-> [st.generators EXCEPT ![index] = gen],
                      counters |-> [st.counters EXCEPT ![index] = @ + 1]],
                     d, index + 1)

\* generatePinkNoise() that walks the rows twice for one sample.
GeneratePinkNoiseTwice(ns, d) ==
    LET st == PinkRows(PinkRows(ns.pink, d, 1), d, 1)
    IN [ns |-> [ns EXCEPT !.pink = st], sample |-> TDiv(SumSeq(st.generators, 1) * 5, 100)]

\* generatePinkNoise()
GeneratePinkNoise(ns, d) ==
    LET st == PinkRows(ns.pink, d, 1)
    IN [ns |-> [ns EXCEPT !.pink = st], sample |-> TDiv(SumSeq(st.generators, 1) * 5, 100)]

\* The "gentle limiting" of generateBrownNoise (lines 537-541).
SoftClamp(x) ==
    IF Abs(x) > 950 THEN Sign(x) * (950 + TDiv(Abs(x) - 950, 10)) ELSE x

\* generateBrownNoise(): scaling 0.02, leakage 0.999
GenerateBrownNoise(ns, d) ==
    LET randomStep == TDiv(Uniform(d[1]) * 2, 100)
        state == SoftClamp(TDiv(ns.brown * 999, 1000) + randomStep)
    IN [ns |-> [ns EXCEPT !.brown = state], sample |-> TDiv(state * 4, 10)]

\* generateBlueNoise(): whiteNoise * (1 + Math.random() * 0.5) * 0.6
GenerateBlueNoise(ns, d) ==
    [ns |-> ns,
     sample |-> TDiv(TDiv(GenerateWhiteNoise(d[1]) * (Milli + d[2] \div 2), Milli) * 6, 10)]

\* generateVioletNoise()
GenerateVioletNoise(ns, d) ==
    LET input == GenerateWhiteNoise(d[1])
    IN [ns |-> [ns EXCEPT !.violet.prev = input],
        sample |-> TDiv(input - ns.violet.prev, 2)]

RECURSIVE GrayStages(_, _, _)
\* for (let i = 0; i < state.state.length - 1; i++) of generateGrayNoise, from stage i
\* (1-based); gives the cells and the last stage's output.
GrayStages(cells, output, i) ==
    IF i > Len(cells) - 1 THEN [cells |-> cells, output |-> output]
    ELSE LET filtered == TDiv(7 * output + 3 * cells[i], 10)
         IN GrayStages([cells EXCEPT ![i + 1] = cells[i], ![i] = filtered], filtered, i + 1)

\* generateGrayNoise()
GenerateGrayNoise(ns, d) ==
    LET r == GrayStages(ns.gray, GenerateWhiteNoise(d[1]), 1)
    IN [ns |-> [ns EXCEPT !.gray = r.cells], sample |-> TDiv(r.output * 6, 10)]

\* generateRedNoise(): scaling 0.01, leakage 0.9995
GenerateRedNoise(ns, d) ==
    LET randomStep == TDiv(Uniform(d[1]), 100)
        state == TDiv(ns.red * 9995, 10000) + randomStep
    IN [ns |-> [ns EXCEPT !.red = state], sample |-> TDiv(state * 8, 10)]

RECURSIVE GreenStages(_, _, _)
\* for (let i = 0; i < filterState.length - 1; i += 2) of generateGreenNoise.
GreenStages(fs, sample, i) ==
    IF i > Len(fs) - 1 THEN [fs |-> fs, sample |-> sample]
    ELSE LET hp == sample - TDiv(fs[i] * 95, 100)
             lp == TDiv(hp, 10) + TDiv(fs[i + 1] * 9, 10)
         IN GreenStages([fs EXCEPT ![i] = sample, ![i + 1] = lp], lp, i + 2)

\* generateGreenNoise()
GenerateGreenNoise(ns, d) ==
    LET r == GreenStages(ns.green, GenerateWhiteNoise(d[1]), 1)
    IN [ns |-> [ns EXCEPT !.green = r.fs], sample |-> TDiv(r.sample * 12, 10)]

\* switch (this.currentNoiseType) of generateAudio
GenerateSample(type, ns, d) ==
    CASE type = "white" -> [ns |-> ns, sample |-> GenerateWhiteNoise(d[1])]
      [] type = "pink" -> GeneratePinkNoise(ns, d)
      [] type = "brown" -> GenerateBrownNoise(ns, d)
      [] type = "blue" -> GenerateBlueNoise(ns, d)
      [] type = "violet" -> GenerateVioletNoise(ns, d)
      [] type = "gray" -> GenerateGrayNoise(ns, d)
      [] type = "red" -> GenerateRedNoise(ns, d)
      [] type = "green" -> GenerateGreenNoise(ns, d)
      [] OTHER -> [ns |-> ns, sample |-> GenerateWhiteNoise(d[1])]

RECURSIVE RenderFrom(_, _, _, _, _, _)
\* for (let i = 0; i < bufferLength; i++) of generateAudio; ds[i] are sample i's draws.
RenderFrom(type, ns, ds, i, left, right) ==
    IF i > Len(ds) THEN [ns |-> ns, left |-> left, right |-> right]
    ELSE LET g == GenerateSample(type, ns, ds[i])
         IN RenderFrom(type, g.ns, ds, i + 1,
                       Append(left, g.sample),
                       Append(right, TDiv(g.sample * 95, 100) + (ds[i][8] \div 10 - 50)))


(* ------------------------------ the limiter --------------------------- *)
\* Limiter samples are in ten-thousandths.
Tens == 100 * 100
\* const samples = 44100 of createSoftLimiterCurve
CurveSamples == 44100

RECURSIVE ExpTerms(_, _, _, _)
\* sum of the Taylor terms of exp(w) from term number k on (term is w^k / k!).
ExpTerms(w, term, k, last) ==
    IF k > last \/ term = 0 THEN 0
    ELSE term + ExpTerms(w, (term * w) \div (Tens * (k + 1)), k + 1, last)

\* Math.tanh(z) for |z| <= 1: (e^2|z| - 1) / (e^2|z| + 1), with the sign of z.
Tanh(z) ==
    LET ex == ExpTerms(2 * Abs(z), Tens, 0, 14)
    IN Sign(z) * (((ex - Tens) * Tens) \div (ex + Tens))

\* createSoftLimiterCurve(): curve[i] = Math.tanh(x * 0.7) * 0.95, x = (i * 2) / samples - 1
SoftLimiterCurve(i) ==
    LET x == (i * 2 * Tens) \div CurveSamples - Tens
    IN TDiv(Tanh(TDiv(x * 7, 10)) * 95, 100)

\* this.limiter: a WaveShaper node whose curve is createSoftLimiterCurve(), on input
\* x.  The node clamps x to [-1, 1] and interpolates between the curve's points.
WaveShaper(x) ==
    LET num == (CurveSamples - 1) * (x + Tens)
        den == 2 * Tens
        k == num \div den
        r == num % den
    IN IF x <= 0 - Tens THEN SoftLimiterCurve(0)
       ELSE IF x >= Tens THEN SoftLimiterCurve(CurveSamples - 1)
       ELSE TDiv((den - r) * SoftLimiterCurve(k) + r * SoftLimiterCurve(k + 1), den)

\* Math.PI in thousandths.
PiMilli == 3142

\* createSaturationCurve(amount): curve[i] =
\* ((3 + amount * 20) * x * 20 * deg) / (Math.PI + amount * Math.abs(x)), with
\* deg = Math.PI / 180 and x = (i * 2) / samples - 1; amount and the result are in
\* thousandths.
CreateSaturationCurve(amount, i) ==
    LET x == (i * 2 * Milli) \div CurveSamples - Milli
        t == TDiv((3 * Milli + amount * 20) * x, Milli)
    IN TDiv(t * PiMilli, 9 * (PiMilli + TDiv(amount * Abs(x), Milli)))

\* Points of the curve that are looked at: its two ends, the middle, and a pair at
\* the same distance from the middle.
CurveIndices == {0, CurveSamples \div 4, CurveSamples \div 2, 3 * (CurveSamples \div 4),
                 CurveSamples - 1}

\* testIOSAudioRouting(): the samples of the 440 Hz tone of gain 0.1 that play() on
\* iOS connects straight to the destination, where it adds to the limited signal.
TestTone(iosOut) == IF iosOut = Rat(6, 5) THEN {0 - 1000, 0, 1000} ELSE {0}

\* Mutant of LimiterPath: the master gain wired past the limiter to the analyser.
LimiterPathBypassed(x, iosOut) ==
    [lim |-> x, dest |-> IF iosOut # RatNull THEN TDiv(x * iosOut[1], iosOut[2]) ELSE x]

\* connectAudioGraph, lines 357-381: master gain -> limiter -> analyser ->
\* (iosOutputGain ->) destination.  x is the sample entering the limiter.
LimiterPath(x, iosOut) ==
    LET y == WaveShaper(x)
    IN [lim |-> y, dest |-> IF iosOut # RatNull THEN TDiv(y * iosOut[1], iosOut[2]) ELSE y]


(* ---------------- the legacy NoiseGenerator (js/NoiseGenerator.js) ------------ *)
\* new NoiseGenerator(): gainNode holds the gain value (thousandths), Null without a
\* node.  threw: whether the last call on the object ended with an exception;
\* disposed: whether dispose() was called (history).  output: the last block written
\* to channel 0; rendered: the samples written since the last start() (history).
GeneratorConstructed ==
    [audioContext |-> "null", initPromise |-> "null", gainNode |-> Null,
     scriptNode |-> "null", isPlaying |-> FALSE, currentNoiseType |-> "pink",
     brownNoiseState |-> 0, pinkNoiseState |-> PinkSeed,
     pinkNoiseCounters |-> [k \in 1 .. 7 |-> 0],
     greenNoiseBuffer |-> <<0, 0>>, blueNoisePrev |-> 0,
     output |-> <<>>, rendered |-> 0, threw |-> FALSE, disposed |-> FALSE]

\* setVolume(volume), volume in thousandths.
GeneratorSetVolume(g, volume) ==
    IF g.gainNode # Null THEN [g EXCEPT !.gainNode = TDiv(volume * volume, Milli)] ELSE g

\* _initAudio(): created is what the AudioContext constructor gives ("throws" or the
\* new context's state), resumed whether resume() resolves.  The promise it returns is
\* kept in initPromise.
GeneratorInitAudio(g, created, resumed) ==
    IF created = "throws" THEN [g EXCEPT !.initPromise = "rejected"]
    ELSE IF created = "suspended" /\ ~resumed
    THEN [g EXCEPT !.audioContext = "suspended", !.initPromise = "rejected"]
    ELSE GeneratorSetVolume([g EXCEPT !.audioContext = "running", !.gainNode = Milli,
                                      !.initPromise = "resolved"], 500)

\* init()
GeneratorInit(g, created, resumed) ==
    IF g.initPromise # "null" THEN g ELSE GeneratorInitAudio(g, created, resumed)

\* stop()
GeneratorStop(g) ==
    IF g.isPlaying THEN [g EXCEPT !.scriptNode = "null", !.isPlaying = FALSE] ELSE g

\* start(noiseType); seed is the pink rows it draws.
GeneratorStart(g, noiseType, created, resumed, seed) ==
    LET g1 == IF g.audioContext = "null" THEN GeneratorInit(g, created, resumed) ELSE g
    IN IF g.audioContext = "null" /\ g1.initPromise = "rejected"
       THEN [g1 EXCEPT !.threw = TRUE]
       ELSE LET g2 == [GeneratorStop(g1) EXCEPT
                          !.currentNoiseType = noiseType,
                          !.brownNoiseState = 0,
                          !.pinkNoiseState = seed,
                          !.pinkNoiseCounters = [k \in 1 .. 7 |-> 0],
                          !.rendered = 0]
            IN \* this.audioContext.createScriptProcessor on null
               IF g2.audioContext = "null" THEN [g2 EXCEPT !.threw = TRUE]
               \* this.scriptNode.connect(this.gainNode) on null
               ELSE IF g2.gainNode = Null
               THEN [g2 EXCEPT !.scriptNode = "created", !.threw = TRUE]
               ELSE [g2 EXCEPT !.scriptNode = "connected", !.isPlaying = TRUE,
                               !.threw = FALSE]

\* fadeVolume(targetVolume, duration): the gain at the end of the ramp.
GeneratorFadeVolume(g, targetVolume) ==
    IF g.gainNode = Null THEN g
    ELSE [g EXCEPT !.gainNode = Max2(1, TDiv(targetVolume * targetVolume, Milli))]

\* dispose()
GeneratorDispose(g) ==
    [GeneratorStop(g) EXCEPT !.audioContext = "null", !.gainNode = Null,
                             !.disposed = TRUE, !.threw = FALSE]

\* generatePinkNoiseSample(); st holds the rows and the counters.
GeneratePinkNoiseSample(g, d) ==
    LET st == PinkRows([generators |-> g.pinkNoiseState, counters |-> g.pinkNoiseCounters],
                       d, 1)
    IN [g |-> [g EXCEPT !.pinkNoiseState = st.generators,
                        !.pinkNoiseCounters = st.counters],
        sample |-> TDiv(SumSeq(st.generators, 1) * 15, 100)]

\* generateBrownNoiseSample(): scaling 0.018, leakage 0.9995
GenerateBrownNoiseSample(g, d) ==
    LET randomStep == TDiv(Uniform(d[1]) * 18, Milli)
        state == SoftClamp(TDiv(g.brownNoiseState * 9995, 10000) + randomStep)
    IN [g |-> [g EXCEPT !.brownNoiseState = state], sample |-> state]

\* generateGreenNoiseSample()
GenerateGreenNoiseSample(g, d) ==
    LET b == g.greenNoiseBuffer
        filtered == TDiv(8 * Uniform(d[1]) + 3 * b[1] - b[2], 10)
    IN [g |-> [g EXCEPT !.greenNoiseBuffer = <<filtered, b[1]>>],
        sample |-> TDiv(filtered * 7, 10)]

\* generateBlueNoiseSample(): prev + white - (prev || 0) is white.
GenerateBlueNoiseSample(g, d) ==
    LET highpass == TDiv(85 * Uniform(d[1]), 100)
    IN [g |-> [g EXCEPT !.blueNoisePrev = Uniform(d[1])], sample |-> TDiv(highpass * 8, 10)]

\* switch (this.currentNoiseType) of generateContinuousNoise
GeneratorSample(g, d) ==
    CASE g.currentNoiseType = "white" -> [g |-> g, sample |-> Uniform(d[1])]
      [] g.currentNoiseType = "pink" -> GeneratePinkNoiseSample(g, d)
      [] g.currentNoiseType = "brown" -> GenerateBrownNoiseSample(g, d)
      [] g.currentNoiseType = "green" -> GenerateGreenNoiseSample(g, d)
      [] g.currentNoiseType = "blue" -> GenerateBlueNoiseSample(g, d)
      [] OTHER -> GeneratePinkNoiseSample(g, d)

RECURSIVE GenerateContinuousNoise(_, _, _)
\* generateContinuousNoise(event), from sample i; ds[i] are sample i's draws.
GenerateContinuousNoise(g, ds, i) ==
    IF i > Len(ds) THEN g
    ELSE LET r == GeneratorSample(g, ds[i])
         IN GenerateContinuousNoise(
                [r.g EXCEPT !.output = IF i = 1 THEN <<r.sample>> ELSE Append(@, r.sample),
                            !.rendered = @ + 1],
                ds, i + 1)

(* ------- TimerManager (unnamed/part_001) and ColorNoiseApp (lines 1479-2025) ------- *)
\* The operators below work on the page: the timer, the app, the generator and the
\* scheduled timers, as one record w.  Times are in milliseconds.
TickMs == 1000
FadeInMs == 1500
FadeOutMs == 1000
WarningSeconds == 30

RestartMs == 100

\* The time step of the model: time goes on by StepMs, or up to the next entry due.
StepMs == FadeInMs - FadeOutMs

\* TimerManager's constructor followed by the app's setCallbacks; timerInterval 0 is
\* null, otherwise the interval's handle; callbacks is FALSE once dispose() has set
\* the three callbacks to null.  ticks and completed are history: the runs of tick()
\* on an active timer and the invocations of onComplete since the last start() or
\* cancel().
TimerConstructed ==
    [timerInterval |-> 0, remainingTime |-> 0, totalTime |-> 0, isActive |-> FALSE,
     callbacks |-> TRUE, ticks |-> 0, completed |-> 0]

\* ColorNoiseApp's constructor and init().  timerFadeOut and events are history: the
\* remainingTime at which the onTick callback started a fade-out for the timer now
\* set (0 for none), and the number of user events handled.
AppConstructed ==
    [isPlaying |-> FALSE, isFading |-> FALSE, volume |-> 500,
     currentNoiseType |-> "pink", timerFadeOut |-> 0, events |-> 0]

\* The live intervals' handles.
LiveIntervals(w) == {e.id : e \in {x \in w.scheduled : x.kind = "tick"}}

\* setInterval / setTimeout: a new entry, due after delay.
NewHandle(w) ==
    CHOOSE h \in 1 .. Cardinality(LiveIntervals(w)) + 1 : h \notin LiveIntervals(w)

SetTimer(w, kind, id, delay) ==
    [w EXCEPT !.scheduled = @ \cup {[kind |-> kind, id |-> id, left |-> delay]}]

\* clearInterval(handle); clearInterval(null) does nothing.
ClearInterval(w, handle) ==
    [w EXCEPT !.scheduled = {e \in @ : ~(e.kind = "tick" /\ e.id = handle)}]

\* startFadeOut(duration)
AppStartFadeOut(w, duration) ==
    IF ~w.app.isFading
    THEN SetTimer([w EXCEPT !.app.isFading = TRUE,
                            !.generator = GeneratorFadeVolume(@, 0)],
                  "fadeEnd", 0, duration)
    ELSE w

\* The onTick callback without the test for the last WarningSeconds.
AppOnTickAnyTime(w) ==
    LET remainingTime == w.timer.remainingTime
    IN IF remainingTime > 0 /\ ~w.app.isFading
       THEN [AppStartFadeOut(w, remainingTime * 1000) EXCEPT
                !.app.timerFadeOut = remainingTime]
       ELSE w

\* The onTick callback of setupTimerCallbacks (the display is not modelled).
AppOnTick(w) ==
    LET remainingTime == w.timer.remainingTime
    IN IF remainingTime <= WarningSeconds /\ remainingTime > 0 /\ ~w.app.isFading
       THEN [AppStartFadeOut(w, remainingTime * 1000) EXCEPT
                !.app.timerFadeOut = remainingTime]
       ELSE w

\* fadeIn()
AppFadeIn(w) ==
    SetTimer([w EXCEPT !.app.isFading = TRUE,
                       !.generator = GeneratorFadeVolume(@, w.app.volume)],
             "fadeEnd", 0, FadeInMs)

\* pause() up to the await of fadeOut(): the rest runs when fadeOut's timeout fires.
AppPause(w) ==
    IF ~w.app.isPlaying THEN w
    ELSE SetTimer([w EXCEPT !.app.isFading = TRUE,
                            !.generator = GeneratorFadeVolume(@, 0)],
                  "pauseTail", 0, FadeOutMs)

\* if (this.callbacks.onTick) this.callbacks.onTick(...)
OnTick(w) == IF w.timer.callbacks THEN AppOnTick(w) ELSE w

\* if (this.callbacks.onComplete) this.callbacks.onComplete(): handleTimerComplete,
\* which calls pause().
OnComplete(w) ==
    IF w.timer.callbacks THEN AppPause([w EXCEPT !.timer.completed = @ + 1]) ELSE w

\* reset()
TimerReset(w) == [w EXCEPT !.timer.remainingTime = 0, !.timer.totalTime = 0]

\* cancel() that leaves the times as they are.
TimerCancelKeepsTime(w) ==
    IF w.timer.isActive
    THEN [ClearInterval(w, w.timer.timerInterval) EXCEPT
             !.timer.isActive = FALSE, !.timer.timerInterval = 0,
             !.timer.ticks = 0, !.timer.completed = 0]
    ELSE w

\* cancel(); the onCancel callback only redraws the display.
TimerCancel(w) ==
    IF w.timer.isActive
    THEN TimerReset([ClearInterval(w, w.timer.timerInterval) EXCEPT
                        !.timer.isActive = FALSE, !.timer.timerInterval = 0,
                        !.timer.ticks = 0, !.timer.completed = 0])
    ELSE w

\* complete()
TimerComplete(w) ==
    TimerReset(OnComplete([ClearInterval(w, w.timer.timerInterval) EXCEPT
                            !.timer.isActive = FALSE, !.timer.timerInterval = 0]))

\* start(minutes)
TimerStart(w, minutes) ==
    LET c == TimerCancel(w)
        h == NewHandle(c)
    IN IF minutes <= 0 THEN c
       ELSE OnTick(SetTimer([c EXCEPT !.timer.timerInterval = h,
                                      !.timer.remainingTime = minutes * 60,
                                      !.timer.totalTime = minutes * 60,
                                      !.timer.isActive = TRUE,
                                      !.timer.ticks = 0,
                                      !.timer.completed = 0,
                                      !.app.timerFadeOut = 0],
                            "tick", h, TickMs))

\* tick() that completes a second early.
TimerTickEarly(w) ==
    IF ~w.timer.isActive THEN w
    ELSE LET t == OnTick([w EXCEPT !.timer.remainingTime = @ - 1, !.timer.ticks = @ + 1])
         IN IF t.timer.remainingTime <= 1 THEN TimerComplete(t) ELSE t

\* tick()
TimerTick(w) ==
    IF ~w.timer.isActive THEN w
    ELSE LET t == OnTick([w EXCEPT !.timer.remainingTime = @ - 1, !.timer.ticks = @ + 1])
         IN IF t.timer.remainingTime <= 0 THEN TimerComplete(t) ELSE t

\* pause() that forgets the handle without clearing the interval.
TimerPauseKeepsInterval(w) ==
    IF w.timer.isActive /\ w.timer.timerInterval # 0
    THEN [w EXCEPT !.timer.timerInterval = 0]
    ELSE w

\* pause()
TimerPause(w) ==
    IF w.timer.isActive /\ w.timer.timerInterval # 0
    THEN [ClearInterval(w, w.timer.timerInterval) EXCEPT !.timer.timerInterval = 0]
    ELSE w

\* resume()
TimerResume(w) ==
    IF w.timer.isActive /\ w.timer.timerInterval = 0 /\ w.timer.remainingTime > 0
    THEN LET h == NewHandle(w)
         IN SetTimer([w EXCEPT !.timer.timerInterval = h], "tick", h, TickMs)
    ELSE w

\* addTime(minutes)
TimerAddTime(w, minutes) ==
    IF w.timer.isActive
    THEN OnTick([w EXCEPT !.timer.remainingTime = @ + minutes * 60,
                          !.timer.totalTime = @ + minutes * 60])
    ELSE w

\* dispose()
TimerDispose(w) == [TimerCancel(w) EXCEPT !.timer.callbacks = FALSE]

\* play(): the awaits are taken as one step; the AudioEffects chain is not modelled.
AppPlay(w, created, resumed, seed) ==
    IF w.app.isPlaying THEN w
    ELSE LET g == GeneratorStart(w.generator, w.app.currentNoiseType, created, resumed,
                                 seed)
         IN IF g.threw THEN [w EXCEPT !.generator = g]
            ELSE [AppFadeIn([w EXCEPT !.generator = g]) EXCEPT !.app.isPlaying = TRUE]

\* The rest of pause(), after fadeOut's timeout.
AppPauseTail(w) ==
    [TimerPause([w EXCEPT !.app.isFading = FALSE, !.generator = GeneratorStop(@)])
        EXCEPT !.app.isPlaying = FALSE]

\* The noise types of the buttons the model presses; an entry's id is the type's place.
ButtonTypes == <<"pink", "brown">>

\* selectNoiseType(noiseType), noiseType = ButtonTypes[k]; the buttons' display is not
\* modelled.  Two restarts set in the same instant for the same type are one entry:
\* the second start() only repeats the first.
AppSelectNoiseType(w, k) ==
    LET s == [w EXCEPT !.app.currentNoiseType = ButtonTypes[k]]
    IN IF s.app.isPlaying
       THEN SetTimer([s EXCEPT !.generator = GeneratorStop(@)], "restart", k, RestartMs)
       ELSE s

\* startTimer(minutes)
AppStartTimer(w, minutes) ==
    IF minutes > 0 /\ minutes <= 480
    THEN LET s == TimerStart(w, minutes)
         IN IF s.app.isPlaying THEN TimerResume(s) ELSE s
    ELSE w

\* handleTimerChange(value): value 0 is the infinite entry, otherwise the minutes.
AppHandleTimerChange(w, value) ==
    IF value = 0 THEN TimerCancel(w) ELSE AppStartTimer(w, value)

(* ----------------- sync-presets.js (unnamed/part_006) ----------------- *)
\* A file name is the sequence of its pieces, ".json" being one piece: "rain.json" is
\* <<"rain", ".json">>.  A file's content is the outcome of JSON.parse: parses (FALSE
\* when it throws), name (0: missing or empty, otherwise its rank in localeCompare
\* order), eq and effects (present or not), created (0: missing, otherwise a time).
\* The description and the values inside eq and effects are left out.
DatabaseFile == <<"presets", ".json">>

\* The folder before any file was put there: files is the set of [file, content];
\* backwards (the order of the last listing) and edits (files written or deleted so
\* far) are history.
PresetsEmpty ==
    [files |-> {}, exists |-> FALSE, database |-> <<>>, now |-> 10,
     backwards |-> FALSE, edits |-> 0]

\* file.endsWith('.json'), file.startsWith('.')
EndsWithJson(file) == Len(file) > 0 /\ file[Len(file)] = ".json"

StartsWithDot(file) == Len(file) > 0 /\ file[1] \in {".", ".json"}

\* filename.replace('.json', ''): the first occurrence goes.
RECURSIVE ReplaceJson(_)
ReplaceJson(file) ==
    IF file = <<>> THEN <<>>
    ELSE IF Head(file) = ".json" THEN Tail(file)
    ELSE <<Head(file)>> \o ReplaceJson(Tail(file))

\* The file names the model knows, in one order a file system may list them.
FileOrder ==
    <<<<".", "rain", ".json">>, <<"manifest", ".json">>, <<"notes", ".txt">>,
      <<"ocean", ".json">>, <<"presets", ".json">>, <<"rain", ".json">>,
      <<"rain", ".json", ".json">>>>

RECURSIVE ListFrom(_, _, _)
ListFrom(names, i, backwards) ==
    IF i > Len(FileOrder) THEN <<>>
    ELSE LET file == FileOrder[IF backwards THEN Len(FileOrder) + 1 - i ELSE i]
         IN (IF file \in names THEN <<file>> ELSE <<>>) \o ListFrom(names, i + 1, backwards)

\* fs.readdirSync(presetsDir): the names in the folder, presets.json among them once
\* it was written; the file system lists them in FileOrder or backwards.
ReadDir(p, backwards) ==
    ListFrom({e.file : e \in p.files} \cup (IF p.exists THEN {DatabaseFile} ELSE {}),
             1, backwards)

\* files.filter(...) of lines 25-30
RECURSIVE SelectPresetFiles(_)
SelectPresetFiles(files) ==
    IF files = <<>> THEN <<>>
    ELSE LET file == Head(files)
         IN (IF /\ EndsWithJson(file)
                /\ file # DatabaseFile
                /\ file # <<"manifest", ".json">>
                /\ ~StartsWithDot(file)
             THEN <<file>> ELSE <<>>) \o SelectPresetFiles(Tail(files))

\* fs.readFileSync(filePath) for a listed file.
FileContent(p, file) == (CHOOSE e \in p.files : e.file = file).content

\* database.find(p => p.id === id): the index of the first such entry, 0 for none.
FindPreset(database, id) ==
    IF \E i \in 1 .. Len(database) : database[i].id = id
    THEN CHOOSE i \in 1 .. Len(database) :
             /\ database[i].id = id
             /\ \A j \in 1 .. i - 1 : database[j].id # id
    ELSE 0

\* The preset built from a file (lines 57-88), after the validation of line 52.
BuildPreset(database, filename, presetData, now) ==
    LET id == ReplaceJson(filename)
        data == [eq |-> IF presetData.eq THEN "file" ELSE "default",
                 effects |-> IF presetData.effects THEN "file" ELSE "default"]
        found == FindPreset(database, id)
        changed == \/ database[found].data # data
                   \/ database[found].name # presetData.name
    IN [id |-> id,
        name |-> presetData.name,
        data |-> data,
        builtin |-> TRUE,
        created |-> IF found # 0 THEN database[found].created
                    ELSE IF presetData.created # 0 THEN presetData.created ELSE now,
        updated |-> IF found # 0 /\ ~changed THEN database[found].updated ELSE now]

\* presetFiles.forEach(...) of lines 46-95: a file that does not parse or fails the
\* validation adds nothing.
RECURSIVE CollectPresets(_, _, _, _)
CollectPresets(p, presetFiles, i, newDatabase) ==
    IF i > Len(presetFiles) THEN newDatabase
    ELSE LET presetData == FileContent(p, presetFiles[i])
         IN CollectPresets(p, presetFiles, i + 1,
                IF ~presetData.parses THEN newDatabase
                ELSE IF presetData.name = 0 \/ (~presetData.eq /\ ~presetData.effects)
                THEN newDatabase
                ELSE Append(newDatabase,
                            BuildPreset(p.database, presetFiles[i], presetData, p.now)))

\* A sort that leaves the order as it is.
KeepOrder(database) == database

\* newDatabase.sort((a, b) => a.name.localeCompare(b.name)): the sort is stable.
RECURSIVE SortByName(_)
InsertByName(sorted, preset) ==
    LET k == Cardinality({i \in 1 .. Len(sorted) : sorted[i].name <= preset.name})
    IN SubSeq(sorted, 1, k) \o <<preset>> \o SubSeq(sorted, k + 1, Len(sorted))

SortByName(database) ==
    IF database = <<>> THEN <<>>
    ELSE InsertByName(SortByName(SubSeq(database, 1, Len(database) - 1)),
                      database[Len(database)])

\* syncPresetDatabase(); the clock moves on for the next run.
SyncPresetDatabase(p, backwards) ==
    [p EXCEPT !.database = SortByName(CollectPresets(
                               p, SelectPresetFiles(ReadDir(p, backwards)), 1, <<>>)),
              !.exists = TRUE,
              !.backwards = backwards,
              !.now = @ + 1]

(* ------------------------------- inputs ------------------------------- *)
\* Values an EQ slider can be dragged to (the DOM keeps them in its range).
EQSliderValues == {0 - 30}
\* parseFloat of what is typed into an EQ number input.
EQNumberValues == {15, 30}
\* The same, with a value beyond the slider's range, and NaN for an empty input.
EQNumberValuesWide == {45, NaN}
\* Values an effect slider can be dragged to.
FXSliderValues == {100}
\* parseInt of what is typed into an effect number input.
FXNumberValues == {150, NaN}
\* The effects whose controls FXSpec exercises: one per kind of parameter written
\* (gains, pan, frequency, ratio and threshold).
FXEffects == {"reverb", "spatial", "warmth", "dynamics"}
\* Noise-type buttons pressed in the control specifications.
MainTypes == {"white", "blue"}
\* Noise-type buttons pressed while the generators' memories are followed.
TypeButtons == {"pink", "violet"}
\* noiseType values of imported profiles that generateAudio has no case for.
UnknownTypes == {"purple"}

UniformEQ(g) == [i \in Bands |-> g]
UniformFX(v) == [n \in Effects |-> v]

\* eq objects of imported profiles: in range, out of range, and one whose last band
\* is not a number.
ProfileEQs ==
    {UniformEQ(g) : g \in {0 - 30, 15, 45}}
        \cup {[i \in Bands |-> IF i = NumBands THEN NaN ELSE 15]}
\* effects objects of imported profiles.
ProfileFXs ==
    {UniformFX(v) : v \in {100, 150}}
        \cup {[n \in Effects |-> IF n = "warmth" THEN NaN ELSE 50]}

Profiles ==
    {[hasType |-> ht, noiseType |-> IF ht THEN "brown" ELSE "",
      hasEq |-> he, eq |-> IF he THEN q ELSE <<>>,
      hasFx |-> hf, effects |-> IF hf THEN f ELSE <<>>] :
        ht \in BOOLEAN, he \in BOOLEAN, hf \in BOOLEAN, q \in ProfileEQs, f \in ProfileFXs}

\* data objects of presets.
PresetDatas ==
    {[hasEq |-> he, eq |-> IF he THEN UniformEQ(g) ELSE <<>>,
      hasFx |-> hf, effects |-> IF hf THEN UniformFX(v) ELSE <<>>] :
        he \in BOOLEAN, hf \in BOOLEAN, g \in {15, 45}, v \in {100, 150}}

\* noiseType arguments of NoiseGenerator.start: two of the app's buttons and a name
\* the generator has no case for.
LegacyTypes == {"pink", "brown", "purple"}
\* Pink rows start() may draw.
PinkSeeds == {PinkSeed, [k \in 1 .. 7 |-> 0 - PinkSeed[k]]}
\* Volumes passed to setVolume and fadeVolume (thousandths).
Volumes == {0, 500}

\* Files an admin may put into the Presets folder, and what they may hold.
FileNames == {FileOrder[i] : i \in 1 .. Len(FileOrder)} \ {DatabaseFile}

PresetContent(parses, name, eq, effects, created) ==
    [parses |-> parses, name |-> name, eq |-> eq, effects |-> effects,
     created |-> created]

FileContents ==
    {PresetContent(FALSE, 0, FALSE, FALSE, 0), PresetContent(TRUE, 0, TRUE, TRUE, 0),
     PresetContent(TRUE, 1, FALSE, FALSE, 0), PresetContent(TRUE, 1, TRUE, FALSE, 0),
     PresetContent(TRUE, 2, FALSE, TRUE, 5)}

\* rain.json and ocean.json are tried with every content, the other names with one
\* well-formed content.
ContentsFor(file) ==
    IF file \in {<<"rain", ".json">>, <<"ocean", ".json">>}
    THEN FileContents
    ELSE {PresetContent(TRUE, 2, TRUE, TRUE, 0)}

\* The timer select's values in minutes; 0 is the infinite entry.
TimerValues == {0, 1}

\* Samples entering the limiter: up to three times full scale.
LimiterInputs == {k * 1250 : k \in (0 - 24) .. 24}

\* Math.random() results used for a block: 0 and (just under) 1.
RandomValues == {0, Milli}
\* The draws of one sample, all equal to r.
Draws(r) == [k \in 1 .. 8 |-> r]
\* Blocks of BufferLength samples: every sample of a block draws the same value.
Blocks == {[i \in 1 .. BufferLength |-> Draws(r)] : r \in RandomValues}


(* -------------------------------- Init -------------------------------- *)
\* The constructor (lines 9-61).
Constructed ==
    /\ ios \in BOOLEAN
    /\ audioContext = "null"
    /\ iOSUnlocked = FALSE
    /\ scriptNode = "null"
    /\ masterGain = RatNull
    /\ iosOutputGain = RatNull
    /\ eqBands = <<>>
    /\ fx = FxNull
    /\ isPlaying = FALSE
    /\ currentNoiseType = "white"
    /\ eqSlider = [i \in Bands |-> 0]
    /\ fxSlider = [n \in Effects |-> 0]
    /\ lastAlert = "none"
    /\ pending = <<>>
    /\ outputL = <<>>
    /\ outputR = <<>>
    /\ noiseStates =
         [brown |-> 0,
          pink |-> [generators |-> PinkSeed, counters |-> [k \in 1 .. 7 |-> 0]],
          violet |-> [state |-> 0, prev |-> 0],
          gray |-> [k \in 1 .. 4 |-> 0],
          red |-> 0,
          green |-> [k \in 1 .. 6 |-> 0]]
    /\ limiterOut = [lim |-> 0, dest |-> 0]
    /\ generator = GeneratorConstructed
    /\ timer = TimerConstructed
    /\ app = AppConstructed
    /\ scheduled = {}
    /\ presets = PresetsEmpty

Init == Constructed

\* The fields of Playback as the constructor leaves them.
ConstructedPlayback ==
    [ctx |-> "null", unlocked |-> FALSE, script |-> "null", mg |-> RatNull,
     iosOut |-> RatNull, eq |-> <<>>, fx |-> FxNull, playing |-> FALSE,
     alert |-> "none", wait |-> ""]

\* A desktop browser after the constructor, a noise-type button among types and a
\* togglePlayback that found the new context running: the engine plays.
PlayingWith(types) ==
    /\ ios = FALSE
    /\ LET g == TogglePlaybackStart(ConstructedPlayback, "running")
       IN /\ audioContext = g.ctx
          /\ iOSUnlocked = g.unlocked
          /\ scriptNode = g.script
          /\ masterGain = g.mg
          /\ iosOutputGain = g.iosOut
          /\ eqBands = g.eq
          /\ fx = g.fx
          /\ isPlaying = g.playing
          /\ lastAlert = g.alert
    /\ currentNoiseType \in types
    /\ eqSlider = [i \in Bands |-> 0]
    /\ fxSlider = [n \in Effects |-> 0]
    /\ pending = <<>>
    /\ outputL = <<>>
    /\ outputR = <<>>
    /\ noiseStates =
         [brown |-> 0,
          pink |-> [generators |-> PinkSeed, counters |-> [k \in 1 .. 7 |-> 0]],
          violet |-> [state |-> 0, prev |-> 0],
          gray |-> [k \in 1 .. 4 |-> 0],
          red |-> 0,
          green |-> [k \in 1 .. 6 |-> 0]]
    /\ limiterOut = [lim |-> 0, dest |-> 0]
    /\ generator = GeneratorConstructed
    /\ timer = TimerConstructed
    /\ app = AppConstructed
    /\ scheduled = {}
    /\ presets = PresetsEmpty

\* The engine plays brown or red noise.
NoiseInit == PlayingWith({"brown", "red"})

\* The engine plays pink noise.
TypeInit == PlayingWith({"pink"})

(* ------------------------------- actions ------------------------------ *)
\* A control handler returns: its writes are stored.
Commit(e) ==
    /\ currentNoiseType' = e.type
    /\ eqBands' = e.eq
    /\ masterGain' = e.mg
    /\ fx' = e.fx
    /\ eqSlider' = e.eqS
    /\ fxSlider' = e.fxS

Control(e) ==
    /\ Commit(e)
    /\ UNCHANGED <<otherVars, ios, audioContext, iOSUnlocked, scriptNode, iosOutputGain, isPlaying,
                   lastAlert, pending, outputL, outputR, noiseStates, limiterOut>>

\* A segment of togglePlayback returns or suspends: its writes are stored.
CommitPlayback(g, rest) ==
    /\ audioContext' = g.ctx
    /\ iOSUnlocked' = g.unlocked
    /\ scriptNode' = g.script
    /\ masterGain' = g.mg
    /\ iosOutputGain' = g.iosOut
    /\ eqBands' = g.eq
    /\ fx' = g.fx
    /\ isPlaying' = g.playing
    /\ lastAlert' = g.alert
    /\ pending' = IF g.wait = "" THEN rest ELSE Append(rest, g.wait)
    /\ UNCHANGED <<otherVars, ios, currentNoiseType, eqSlider, fxSlider, outputL, outputR,
                   noiseStates, limiterOut>>

\* handlePlayButtonClick -> togglePlayback()
TogglePlayback ==
    /\ Len(pending) < MaxPending
    /\ \E created \in {"throws", "suspended", "running"} :
         /\ audioContext # "null" => created = "running"
         /\ CommitPlayback(TogglePlaybackStart(Playback, created), pending)

\* The promise or timer a suspended togglePlayback awaits is settled.
ContinuePlayback ==
    \E k \in 1 .. Len(pending), resolved \in BOOLEAN :
        /\ \A j \in 1 .. (k - 1) : AwaitKind(pending[j]) # AwaitKind(pending[k])
        /\ ~resolved => (AwaitKind(pending[k]) = "resume" /\ audioContext = "suspended")
        /\ CommitPlayback(Continue(Playback, pending[k], resolved),
                          SubSeq(pending, 1, k - 1) \o SubSeq(pending, k + 1, Len(pending)))

\* selectNoiseType(element, type) of a noise-type button
SelectNoiseType(types) ==
    \E type \in types : Control(SelectNoiseTypeF(Engine, type))

EQSliderEvent ==
    \E i \in Bands, value \in EQSliderValues : Control(EQSliderInput(Engine, i, value))

EQNumberEventOn(bands, values) ==
    \E i \in bands, value \in values : Control(EQNumberInput(Engine, i, value))

EQNumberEvent == EQNumberEventOn(Bands, EQNumberValues)

FXSliderEvent(effects) ==
    \E n \in effects, value \in FXSliderValues : Control(FXSliderInput(Engine, n, value))

FXNumberEvent(effects) ==
    \E n \in effects, value \in FXNumberValues : Control(FXNumberInput(Engine, n, value))

\* loadSelectedPreset -> PresetLoader.loadPreset -> applyPresetData
ApplyPreset ==
    \E presetData \in PresetDatas : Control(ApplyPresetData(Engine, presetData))

\* importProfile's reader.onload with a parsed profile: loadProfile, whose alert is
\* reached only when nothing threw; a throw reaches importProfile's catch.
Import(profile) ==
    LET e == LoadProfile(Engine, profile)
    IN /\ Commit(e)
       /\ lastAlert' = IF e.threw THEN "error" ELSE "loaded"
       /\ UNCHANGED <<otherVars, ios, audioContext, iOSUnlocked, scriptNode, iosOutputGain, isPlaying,
                      pending, outputL, outputR, noiseStates, limiterOut>>

ImportProfile == \E profile \in Profiles : Import(profile)

\* importProfile's reader.onload on a file JSON.parse rejects.
ImportUnparsable ==
    /\ lastAlert' = "error"
    /\ UNCHANGED <<otherVars, ios, audioContext, iOSUnlocked, scriptNode, masterGain, iosOutputGain,
                   eqBands, fx, isPlaying, currentNoiseType, eqSlider, fxSlider, pending,
                   outputL, outputR, noiseStates, limiterOut>>

\* exportProfile() and then importProfile of the exported file.
ExportImport == Import(ExportProfile(Engine))

\* Mutant of GenerateAudioStopped: only channel 0 is filled with silence.
GenerateAudioStoppedLeftOnly ==
    /\ scriptNode = "connected"
    /\ ~isPlaying
    /\ outputL' = [i \in 1 .. BufferLength |-> 0]
    /\ UNCHANGED <<otherVars, ios, audioContext, iOSUnlocked, scriptNode, masterGain, iosOutputGain,
                   eqBands, fx, isPlaying, currentNoiseType, eqSlider, fxSlider, lastAlert,
                   pending, noiseStates, limiterOut, outputR>>

\* onaudioprocess -> generateAudio(event) while stopped (lines 462-467).
GenerateAudioStopped ==
    /\ scriptNode = "connected"
    /\ ~isPlaying
    /\ outputL' = [i \in 1 .. BufferLength |-> 0]
    /\ outputR' = [i \in 1 .. BufferLength |-> 0]
    /\ UNCHANGED <<otherVars, ios, audioContext, iOSUnlocked, scriptNode, masterGain, iosOutputGain,
                   eqBands, fx, isPlaying, currentNoiseType, eqSlider, fxSlider, lastAlert,
                   pending, noiseStates, limiterOut>>

\* onaudioprocess -> generateAudio(event) while playing (lines 469-503).
GenerateAudioPlaying ==
    /\ scriptNode = "connected"
    /\ isPlaying
    /\ \E ds \in Blocks :
         LET r == RenderFrom(currentNoiseType, noiseStates, ds, 1, <<>>, <<>>)
         IN /\ noiseStates' = r.ns
            /\ outputL' = r.left
            /\ outputR' = r.right
    /\ UNCHANGED <<otherVars, ios, audioContext, iOSUnlocked, scriptNode, masterGain, iosOutputGain,
                   eqBands, fx, isPlaying, currentNoiseType, eqSlider, fxSlider, lastAlert,
                   pending, limiterOut>>

\* The audio graph carries one sample through the limiter to the destination.
ProcessLimiter ==
    /\ scriptNode = "connected"
    /\ \E x \in LimiterInputs, tone \in TestTone(iosOutputGain) :
         LET out == LimiterPath(x, iosOutputGain)
         IN limiterOut' = [out EXCEPT !.dest = @ + tone]
    /\ UNCHANGED <<otherVars, ios, audioContext, iOSUnlocked, scriptNode, masterGain, iosOutputGain,
                   eqBands, fx, isPlaying, currentNoiseType, eqSlider, fxSlider, lastAlert,
                   pending, outputL, outputR, noiseStates>>

\* generateAudio while playing, followed for MaxPinkCalls calls of generatePinkNoise.
GenerateAudioCounted ==
    /\ noiseStates.pink.counters[1] + BufferLength <= MaxPinkCalls
    /\ GenerateAudioPlaying

\* importProfile of a file that holds a noiseType only.
ImportTypeOnly ==
    \E type \in UnknownTypes :
        Import([hasType |-> TRUE, noiseType |-> type, hasEq |-> FALSE, eq |-> <<>>,
                hasFx |-> FALSE, effects |-> <<>>])

\* A call on the legacy generator returns or throws: its writes are stored.
GeneratorStep(g) ==
    /\ generator' = g
    /\ UNCHANGED <<engineVars, timer, app, scheduled, presets>>

\* noiseGenerator.start(noiseType)
GeneratorStartCall ==
    \E noiseType \in LegacyTypes, created \in {"throws", "suspended", "running"},
       resumed \in BOOLEAN, seed \in PinkSeeds :
        /\ (generator.audioContext # "null" \/ generator.initPromise # "null")
               => (created = "running" /\ resumed)
        /\ created # "suspended" => resumed
        /\ GeneratorStep(GeneratorStart(generator, noiseType, created, resumed, seed))

\* noiseGenerator.stop()
GeneratorStopCall == GeneratorStep([GeneratorStop(generator) EXCEPT !.threw = FALSE])

\* noiseGenerator.setVolume(volume)
GeneratorSetVolumeCall ==
    \E volume \in Volumes :
        GeneratorStep([GeneratorSetVolume(generator, volume) EXCEPT !.threw = FALSE])

\* noiseGenerator.fadeVolume(targetVolume, duration)
GeneratorFadeVolumeCall ==
    \E targetVolume \in Volumes :
        GeneratorStep([GeneratorFadeVolume(generator, targetVolume) EXCEPT !.threw = FALSE])

\* noiseGenerator.dispose()
GeneratorDisposeCall == GeneratorStep(GeneratorDispose(generator))

\* onaudioprocess of the legacy generator's script processor.
GeneratorRender ==
    /\ generator.scriptNode = "connected"
    /\ generator.rendered + BufferLength <= MaxLegacySamples
    /\ \E ds \in Blocks : GeneratorStep(GenerateContinuousNoise(generator, ds, 1))

\* The page as the operators of TimerManager and ColorNoiseApp take it.
Page == [timer |-> timer, app |-> app, scheduled |-> scheduled, generator |-> generator]

\* A handler of the page ran to its end: its writes are stored.
PageStep(w) ==
    /\ timer' = w.timer
    /\ app' = w.app
    /\ scheduled' = w.scheduled
    /\ generator' = w.generator
    /\ UNCHANGED <<engineVars, presets>>

\* The entries whose delay has run out.
Due == {e \in scheduled : e.left = 0}

\* StepMs pass with no handler running; a due entry fires before time goes on.
Advance ==
    /\ scheduled # {}
    /\ Due = {}
    /\ LET step == IF \E e \in scheduled : e.left < StepMs
                   THEN CHOOSE m \in {e.left : e \in scheduled} :
                            \A e \in scheduled : m <= e.left
                   ELSE StepMs
       IN PageStep([Page EXCEPT !.scheduled = {[e EXCEPT !.left = @ - step] : e \in @}])

\* A live interval fires: it is set again TickMs ahead and runs tick().
IntervalFire ==
    \E e \in Due :
        /\ e.kind = "tick"
        /\ PageStep(TimerTick([Page EXCEPT
                                  !.scheduled = (@ \ {e}) \cup {[e EXCEPT !.left = TickMs]}]))

\* The timeout of fadeIn() or startFadeOut() fires.
FadeEnd ==
    \E e \in Due :
        /\ e.kind = "fadeEnd"
        /\ PageStep([Page EXCEPT !.scheduled = @ \ {e}, !.app.isFading = FALSE])

\* The timeout of fadeOut() fires and pause() goes on.
PauseTail ==
    \E e \in Due :
        /\ e.kind = "pauseTail"
        /\ PageStep(AppPauseTail([Page EXCEPT !.scheduled = @ \ {e}]))

\* The timeout of selectNoiseType fires: noiseGenerator.start(noiseType) on the
\* context the playback has created.
RestartFire ==
    \E e \in Due, seed \in PinkSeeds :
        /\ e.kind = "restart"
        /\ PageStep([Page EXCEPT
                        !.scheduled = @ \ {e},
                        !.generator = GeneratorStart(@, ButtonTypes[e.id], "running",
                                                     TRUE, seed)])

\* The page when a user event is dispatched.
UserEvent == [Page EXCEPT !.app.events = @ + 1]

\* A click on a noise-type button: selectNoiseType(btn.dataset.type).
NoiseButton ==
    \E k \in 1 .. Len(ButtonTypes) :
        /\ app.events < MaxAppEvents
        /\ PageStep(AppSelectNoiseType(UserEvent, k))

\* togglePlayPause(), from the play button or the space key.
TogglePlayPause ==
    \E created \in {"throws", "suspended", "running"}, resumed \in BOOLEAN,
       seed \in PinkSeeds :
        /\ (app.isPlaying \/ generator.audioContext # "null"
                \/ generator.initPromise # "null")
               => (created = "running" /\ resumed /\ seed = PinkSeed)
        /\ created # "suspended" => resumed
        /\ app.events < MaxAppEvents
        /\ PageStep(IF app.isPlaying THEN AppPause(UserEvent)
                    ELSE AppPlay(UserEvent, created, resumed, seed))

\* The timer select changes: handleTimerChange(value).
TimerSelect ==
    \E value \in TimerValues :
        /\ app.events < MaxAppEvents
        /\ PageStep(AppHandleTimerChange(UserEvent, value))

\* Direct calls of TimerManager's methods.
TimerStartCall == \E minutes \in TimerValues : PageStep(TimerStart(Page, minutes))

TimerPauseCall == PageStep(TimerPause(Page))

TimerResumeCall == PageStep(TimerResume(Page))

TimerAddTimeCall ==
    \E minutes \in TimerValues :
        /\ timer.totalTime + minutes * 60 <= MaxTimerSeconds
        /\ PageStep(TimerAddTime(Page, minutes))

TimerCancelCall == PageStep(TimerCancel(Page))

TimerDisposeCall == PageStep(TimerDispose(Page))

\* The same calls made by a caller whose calls are counted in events.
CountdownStart ==
    \E minutes \in TimerValues :
        /\ app.events < MaxAppEvents
        /\ PageStep(TimerStart(UserEvent, minutes))

CountdownPause == app.events < MaxAppEvents /\ PageStep(TimerPause(UserEvent))

CountdownResume == app.events < MaxAppEvents /\ PageStep(TimerResume(UserEvent))

CountdownCancel == app.events < MaxAppEvents /\ PageStep(TimerCancel(UserEvent))

\* A step of the Presets folder.
PresetsStep(p) ==
    /\ presets' = p
    /\ UNCHANGED <<engineVars, generator, timer, app, scheduled>>

\* An admin writes a preset file, new or in place of the one of that name.
WritePresetFile ==
    \E file \in FileNames :
        \E content \in ContentsFor(file) :
            LET entry == [file |-> file, content |-> content]
            IN /\ entry \notin presets.files
               /\ presets.edits < MaxEdits
               /\ PresetsStep([presets EXCEPT
                                  !.files = {e \in @ : e.file # file} \cup {entry},
                                  !.edits = @ + 1])

\* An admin deletes a preset file.
DeletePresetFile ==
    \E entry \in presets.files :
        /\ presets.edits < MaxEdits
        /\ PresetsStep([presets EXCEPT !.files = @ \ {entry}, !.edits = @ + 1])

\* node sync-presets.js
SyncPresets ==
    /\ presets.now < PresetsEmpty.now + MaxSyncs
    /\ \E backwards \in BOOLEAN : PresetsStep(SyncPresetDatabase(presets, backwards))

(* --------------------------- specifications --------------------------- *)
MainSelect == SelectNoiseType(MainTypes)

\* Playback, the EQ controls, the white and blue noise-type buttons, render blocks.
Next ==
    \/ TogglePlayback
    \/ ContinuePlayback
    \/ MainSelect
    \/ EQSliderEvent
    \/ EQNumberEvent
    \/ GenerateAudioStopped
    \/ GenerateAudioPlaying

Spec == Init /\ [][Next]_vars

\* Playback, the effect controls and the number input of the first EQ band.
FXSlider == FXSliderEvent(FXEffects)
FXNumber == FXNumberEvent(FXEffects)
FirstBandNumber == EQNumberEventOn({1}, EQNumberValuesWide)

FXNext ==
    \/ TogglePlayback
    \/ ContinuePlayback
    \/ FXSlider
    \/ FXNumber
    \/ FirstBandNumber

FXSpec == Init /\ [][FXNext]_vars

\* Playback, profile import and export, presets.
ProfileNext ==
    \/ TogglePlayback
    \/ ContinuePlayback
    \/ ApplyPreset
    \/ ImportProfile
    \/ ImportUnparsable
    \/ ExportImport

ProfileSpec == Init /\ [][ProfileNext]_vars

\* Playback and the signal through the limiter.
LimiterNext ==
    \/ TogglePlayback
    \/ ContinuePlayback
    \/ ProcessLimiter

LimiterSpec == Init /\ [][LimiterNext]_vars

\* Rendering brown or red noise, with playback stopped and restarted.
NoiseNext ==
    \/ GenerateAudioPlaying
    \/ GenerateAudioStopped
    \/ TogglePlayback

NoiseSpec == NoiseInit /\ [][NoiseNext]_vars

\* Rendering while the noise type is switched, by button and by profile.
TypeSelect == SelectNoiseType(TypeButtons)

TypeNext ==
    \/ GenerateAudioCounted
    \/ GenerateAudioStopped
    \/ TogglePlayback
    \/ TypeSelect
    \/ ImportTypeOnly

TypeSpec == TypeInit /\ [][TypeNext]_vars

\* Pink noise from both generators: the engine plays pink, the legacy generator is
\* started on pink with its context available.
PinkStart ==
    \E seed \in PinkSeeds :
        GeneratorStep(GeneratorStart(generator, "pink", "running", TRUE, seed))

PinkNext ==
    \/ GenerateAudioCounted
    \/ PinkStart
    \/ GeneratorRender

PinkSpec == TypeInit /\ [][PinkNext]_vars

\* The legacy generator's interface and its render callback.
GeneratorNext ==
    \/ GeneratorStartCall
    \/ GeneratorStopCall
    \/ GeneratorSetVolumeCall
    \/ GeneratorFadeVolumeCall
    \/ GeneratorDisposeCall
    \/ GeneratorRender

GeneratorSpec == Init /\ [][GeneratorNext]_vars


\* The ColorNoiseApp page after init(), on a desktop browser.
PageInit == Constructed /\ ios = FALSE

\* The ColorNoiseApp page: play/pause, the timer select, and the passing of time.
AppNext ==
    \/ TogglePlayPause
    \/ TimerSelect
    \/ Advance
    \/ IntervalFire
    \/ FadeEnd
    \/ PauseTail

AppSpec == PageInit /\ [][AppNext]_vars

\* TimerManager under direct calls, with the app's callbacks installed.
TimerNext ==
    \/ TimerStartCall
    \/ TimerPauseCall
    \/ TimerResumeCall
    \/ TimerAddTimeCall
    \/ TimerCancelCall
    \/ TimerDisposeCall
    \/ Advance
    \/ IntervalFire
    \/ FadeEnd

TimerSpec == PageInit /\ [][TimerNext]_vars

\* TimerManager under a bounded number of calls.  The event loop runs every callback
\* that is due and time goes on while none is: weak fairness of the three timed steps.
CountdownNext ==
    \/ CountdownStart
    \/ CountdownPause
    \/ CountdownResume
    \/ CountdownCancel
    \/ Advance
    \/ IntervalFire
    \/ FadeEnd

CountdownSpec ==
    /\ PageInit
    /\ [][CountdownNext]_vars
    /\ WF_vars(Advance)
    /\ WF_vars(IntervalFire)
    /\ WF_vars(FadeEnd)

\* The ColorNoiseApp page: play/pause, the noise buttons, and the passing of time.
SwitchNext ==
    \/ TogglePlayPause
    \/ NoiseButton
    \/ Advance
    \/ FadeEnd
    \/ PauseTail
    \/ RestartFire

SwitchSpec == PageInit /\ [][SwitchNext]_vars

\* The Presets folder under edits and runs of the sync script.
PresetsNext ==
    \/ WritePresetFile
    \/ DeletePresetFile
    \/ SyncPresets

PresetsSpec == PageInit /\ [][PresetsNext]_vars

(* ------------------------------- claims ------------------------------- *)
Silence == [i \in 1 .. BufferLength |-> 0]
GraphBuilt == scriptNode = "connected"

\* C1: whatever sample enters the limiter, the sample that leaves it, and the sample
\* that reaches the destination after the iOS output gain, has magnitude at most
\* 0.95 of full scale.
C1_LimiterBoundsOutput ==
    /\ Abs(limiterOut.lim) <= 95 * 100
    /\ Abs(limiterOut.dest) <= 95 * 100

\* C1 witness: on iOS after play() raised the output gain to 1.2, a sample above full
\* scale went through the limiter's top curve point and the output gain.
C1_Witness ==
    /\ ios
    /\ iosOutputGain = Rat(6, 5)
    /\ limiterOut.lim = SoftLimiterCurve(CurveSamples - 1)
    /\ limiterOut.dest > limiterOut.lim

\* C2: a render block produced while the engine is not playing is silent on both
\* channels, and the script processor, once connected, stays connected.
C2_SilentWhenStopped ==
    [][/\ (~isPlaying /\ <<outputL, outputR>>' # <<outputL, outputR>>)
            => (outputL' = Silence /\ outputR' = Silence)
       /\ (scriptNode = "connected" => scriptNode' = "connected")]_vars

\* C2 witness: on iOS, after a play (which raised the output gain) and a stop, a block
\* was rendered silent with the script processor still connected.
C2_Witness ==
    /\ ios
    /\ iosOutputGain = Rat(6, 5)
    /\ ~isPlaying
    /\ scriptNode = "connected"
    /\ outputL = Silence
    /\ outputR = Silence

\* The sum of the strictly positive entries of eq.
PositiveSum(eq) ==
    LET pos == {i \in DOMAIN eq : eq[i] > 0}
        f[S \in SUBSET pos] ==
            IF S = {} THEN 0 ELSE LET i == CHOOSE j \in S : TRUE IN eq[i] + f[S \ {i}]
    IN f[pos]

\* C3: whenever a band gain is written, the master gain that updateAutoGainCompensation
\* leaves is 1 if the positive gains sum to S <= 20 and 20/S if S > 20: it lies in
\* (0, 1] and, times S, does not exceed 20.
C3_CompensationFactor ==
    [][(eqBands # <<>> /\ eqBands' # eqBands) =>
          LET S == PositiveSum(eqBands')
              m == masterGain'
          IN /\ S <= 20 => m = <<1, 1>>
             /\ S > 20 => m[1] * S = 20 * m[2]
             /\ 0 < m[1] /\ m[1] <= m[2]
             /\ m[1] * S <= 20 * m[2]]_vars

\* C3 witness: one band is cut, the boosted bands sum to more than 20 dB and the
\* master gain is 20/S.
C3_Witness ==
    /\ eqBands # <<>>
    /\ \E i \in DOMAIN eqBands : eqBands[i] < 0
    /\ PositiveSum(eqBands) > 20
    /\ masterGain = Rat(20, PositiveSum(eqBands))

\* C4: once the graph is built, the master gain equals the compensation factor of the
\* current band gains, whatever sequence of band changes, play and stop came before.
C4_MasterGainIsFactor ==
    GraphBuilt => masterGain = CompensationFactor(TotalBoost(eqBands))

\* C5: the brown and the red integrator memories never reach magnitude 1.0.
C5_IntegratorsBounded ==
    /\ Abs(noiseStates.brown) < Milli
    /\ Abs(noiseStates.red) < Milli

\* A profile that has its three fields.
Complete(p) == p.hasType /\ p.hasEq /\ p.hasFx

\* The parameters each effect writes.
FxFields(name) ==
    CASE name = "reverb" -> {"reverbGain", "dryGain"}
      [] name = "spatial" -> {"pan"}
      [] name = "warmth" -> {"warmthFreq"}
      [] name = "saturation" -> {"satGain", "satCurve"}
      [] name = "dynamics" -> {"ratio", "threshold"}
      [] name = "modulation" -> {"modGain"}

\* The parameters f hold what updateEffect(name, value) writes on a built graph.  On
\* iOS the spatial effect has no parameter to compare.
EffectApplied(f, name, value) ==
    LET built == [Engine EXCEPT !.fx = [k \in DOMAIN FxNull |-> 0]]
        ref == UpdateEffect(built, name, value)
    IN /\ ~ref.threw
       /\ \A k \in FxFields(name) : f[k] = ref.fx[k] \/ (k = "pan" /\ ios)

\* C6: importing a profile that lacks noiseType, eq or effects changes neither the
\* noise type, nor a band gain, nor an effect parameter, nor the master gain, and an
\* error is reported.
C6_IncompleteProfileRejected ==
    [][\A p \in Profiles :
          (Import(p) /\ ~Complete(p)) =>
              /\ UNCHANGED <<currentNoiseType, eqBands, fx, masterGain>>
              /\ lastAlert' = "error"]_vars

\* C7: on a built graph a load of a complete profile is never partial: after it the
\* noise type, every band gain and every effect equal the profile's, or the load was
\* refused and changed nothing.
C7_LoadIsWhole ==
    [][\A p \in Profiles :
          (GraphBuilt /\ Complete(p) /\ Import(p)) =>
              \/ /\ currentNoiseType' = p.noiseType
                 /\ eqBands' = p.eq
                 /\ \A n \in Effects : EffectApplied(fx', n, p.effects[n])
              \/ /\ lastAlert' = "error"
                 /\ UNCHANGED <<currentNoiseType, eqBands, fx, masterGain>>]_vars

\* C8: loading the profile that exportProfile produces leaves the noise type, every
\* band gain, every effect parameter and the master gain as they were.
C8_ExportLoadRoundTrip ==
    [][ExportImport => UNCHANGED <<currentNoiseType, eqBands, fx, masterGain>>]_vars

\* The values a parameter takes for knob values 0..100.
KnobRange ==
    [reverbGain |-> 0 .. 800, dryGain |-> 500 .. 1000, pan |-> (0 - 300) .. 300,
     warmthFreq |-> 5000 .. 20000, satGain |-> 1000 .. 2500, satCurve |-> 0 .. 800,
     ratio |-> 1000 .. 9000, threshold |-> (0 - 40000) .. (0 - 5000),
     modGain |-> 0 .. 300]

\* C9: every band gain lies in [-30, 30] dB and every effect parameter is one a knob
\* value in 0..100 gives.
C9_ParametersInRange ==
    GraphBuilt =>
        /\ \A i \in DOMAIN eqBands : eqBands[i] \in (0 - 30) .. 30
        /\ \A k \in DOMAIN fx : fx[k] = Null \/ fx[k] \in KnobRange[k]

\* No parameter holds NaN.
NoNaN ==
    /\ \A i \in DOMAIN eqBands : eqBands[i] # NaN
    /\ \A k \in DOMAIN fx : fx[k] # NaN
    /\ masterGain[1] # NaN

\* An empty number input of an effect or of the first EQ band fires its listener.
NaNInput ==
    \/ \E n \in FXEffects : Control(FXNumberInput(Engine, n, NaN))
    \/ Control(EQNumberInput(Engine, 1, NaN))

\* C10: updateEffect or updateEQBand called with NaN leaves every parameter at its
\* last value, and no parameter ever holds NaN.
C10_NaNKeepsLastValue ==
    [][/\ NaNInput => UNCHANGED <<fx, eqBands, masterGain>>
       /\ NoNaN']_vars

\* C10 witness: the reverb slider and the first EQ slider fell to their midpoints on
\* an empty number input while the reverb gains and the band gain, set before on the
\* built graph, kept their values.
C10_Witness ==
    /\ GraphBuilt
    /\ fxSlider["reverb"] = 50 /\ fx.reverbGain = 800 /\ fx.dryGain = 500
    /\ eqSlider[1] = 0 /\ eqBands[1] = 30 /\ masterGain = Rat(2, 3)

\* C11: a block rendered while the noise type is none of the recognised ones is the
\* pink generator's: the samples and the generator memories are those that
\* generatePinkNoise gives from the memories before the block.
C11_UnknownTypeIsPink ==
    [][(GenerateAudioPlaying /\ currentNoiseType \notin NoiseTypes) =>
          \E ds \in Blocks :
              LET r == RenderFrom("pink", noiseStates, ds, 1, <<>>, <<>>)
              IN noiseStates' = r.ns /\ outputL' = r.left]_vars

\* C12: a step that changes the active noise type, in the engine or by restarting the
\* legacy generator with another type, leaves every generator memory as it was.
C12_SwitchKeepsGeneratorState ==
    [][/\ currentNoiseType' # currentNoiseType => noiseStates' = noiseStates
       /\ generator'.currentNoiseType # generator.currentNoiseType =>
              /\ generator'.pinkNoiseState = generator.pinkNoiseState
              /\ generator'.pinkNoiseCounters = generator.pinkNoiseCounters
              /\ generator'.brownNoiseState = generator.brownNoiseState
              /\ generator'.greenNoiseBuffer = generator.greenNoiseBuffer
              /\ generator'.blueNoisePrev = generator.blueNoisePrev]_vars

\* C13: on a built graph a step of play() or stop() that flips the playing flag
\* leaves the script processor's connection, every band gain, every effect
\* parameter, the master gain, the noise type and the generator memories as they were.
C13_PlayStopFrame ==
    [][(GraphBuilt /\ isPlaying' # isPlaying) =>
          UNCHANGED <<scriptNode, eqBands, fx, masterGain, currentNoiseType,
                      noiseStates>>]_vars

\* C14: once dispose() was called on the legacy generator, every later start,
\* setVolume or fadeVolume ends with an exception and the generator is not playing
\* after it.
C14_DisposedCallsFail ==
    [][(/\ generator.disposed
        /\ GeneratorStartCall \/ GeneratorSetVolumeCall \/ GeneratorFadeVolumeCall)
          => (generator'.threw /\ ~generator'.isPlaying)]_vars

\* C15: a togglePlayback on a stopped engine that ends with the context running and
\* nothing left to await has the graph built and the engine playing, whatever
\* initialisation failure came before it.
C15_RetryBuildsGraph ==
    [][(/\ ~isPlaying
        /\ TogglePlayback \/ ContinuePlayback
        /\ audioContext' = "running"
        /\ pending' = <<>>)
          => (GraphBuilt' /\ isPlaying')]_vars

\* C16: the onTick callback starts a fade-out only on an interval tick that leaves
\* 0 < remainingTime <= 30, never with more than 30 seconds left, and a timer that
\* completes while the app is playing has had a fade-out started before onComplete.
C16_FadeOutInLastThirty ==
    [][/\ (app'.timerFadeOut # 0 /\ app'.timerFadeOut # app.timerFadeOut) =>
              /\ IntervalFire
              /\ app'.timerFadeOut = timer'.remainingTime
              /\ timer'.remainingTime > 0
              /\ timer'.remainingTime <= 30
       /\ (IntervalFire /\ timer.isActive /\ ~timer'.isActive /\ app.isPlaying) =>
              app.timerFadeOut # 0]_vars

\* Play, then a one-minute timer: the fade-out began at 30 seconds, the timer has
\* completed and handleTimerComplete's pause() is waiting for its fade.
C16_Witness ==
    /\ app.events = 2
    /\ app.isPlaying
    /\ app.timerFadeOut = 30
    /\ ~timer.isActive
    /\ \E e \in scheduled : e.kind = "pauseTail" /\ e.left = FadeOutMs

\* The live intervals after the step.
LiveIntervalsAfter == LiveIntervals([scheduled |-> scheduled'])

\* C17: pause() on an active timer leaves no interval scheduled and keeps isActive,
\* remainingTime and totalTime; while no interval is scheduled remainingTime moves
\* only through start, addTime and cancel (dispose cancels), so resume() goes on from the paused
\* remainingTime, with one fresh interval; and at most one interval is ever scheduled.
C17_PauseResumeOneInterval ==
    [][/\ (TimerPauseCall /\ timer.isActive) =>
              /\ LiveIntervalsAfter = {}
              /\ timer'.isActive
              /\ timer'.remainingTime = timer.remainingTime
              /\ timer'.totalTime = timer.totalTime
       /\ (/\ timer.isActive
           /\ LiveIntervals(Page) = {}
           /\ ~(TimerStartCall \/ TimerAddTimeCall \/ TimerCancelCall
                   \/ TimerDisposeCall)) =>
              /\ timer'.remainingTime = timer.remainingTime
              /\ timer'.isActive
       /\ (TimerResumeCall /\ timer.isActive /\ timer.timerInterval = 0
              /\ timer.remainingTime > 0) =>
              /\ timer'.timerInterval # 0
              /\ LiveIntervalsAfter = {timer'.timerInterval}
              /\ [kind |-> "tick", id |-> timer'.timerInterval, left |-> TickMs]
                     \in scheduled'
       /\ Cardinality(LiveIntervalsAfter) <= 1]_vars

\* A timer paused in the middle of its countdown.
C17_Witness ==
    /\ timer.isActive
    /\ timer.timerInterval = 0
    /\ LiveIntervals(Page) = {}
    /\ timer.remainingTime > 0
    /\ timer.remainingTime < timer.totalTime

\* A listed file the sync has to take: a .json file other than presets.json,
\* manifest.json and hidden files, that parses and has a name and an eq or effects.
ValidPresetFile(entry) ==
    /\ entry.file[Len(entry.file)] = ".json"
    /\ entry.file \notin {<<"presets", ".json">>, <<"manifest", ".json">>}
    /\ entry.file[1] # "."
    /\ entry.content.parses
    /\ entry.content.name # 0
    /\ entry.content.eq \/ entry.content.effects

C19_OneUpdatePerSample ==
    [][/\ \A k \in 1 .. 7 :
              noiseStates'.pink.counters[k] = noiseStates'.pink.counters[1]
       /\ GenerateAudioPlaying =>
              /\ \A type \in DOMAIN noiseStates :
                     type # currentNoiseType => noiseStates'[type] = noiseStates[type]
              /\ currentNoiseType = "pink" =>
                     noiseStates'.pink.counters[1] =
                         noiseStates.pink.counters[1] + BufferLength
       /\ ~GenerateAudioPlaying => noiseStates' = noiseStates]_vars

\* Pink and violet blocks were rendered, and the engine now stands stopped on a type
\* it has no generator for.
C19_Witness ==
    /\ noiseStates.pink.counters[1] = 2 * BufferLength
    /\ noiseStates.violet.prev # 0
    /\ currentNoiseType \in UnknownTypes
    /\ ~isPlaying

\* The update schedule in closed form.  A block starts at call n0 (counted from
\* 0) with the rows at rows; Redraws are the samples of the block, up to sample i, at
\* which row k (1 .. 7) draws: those whose call number is a multiple of 2^(k-1).
Redraws(n0, i, k) == {j \in 1 .. i : (n0 + j - 1) % 2 ^ (k - 1) = 0}

ScheduledRow(rows, n0, ds, i, k) ==
    IF Redraws(n0, i, k) = {} THEN rows[k]
    ELSE LET last == CHOOSE j \in Redraws(n0, i, k) : \A m \in Redraws(n0, i, k) : m <= j
         IN Uniform(ds[last][k])

\* The sample of call i of the block: hundredths times the sum of the seven rows.
ScheduledSample(rows, n0, ds, i, hundredths) ==
    TDiv(SumSeq([k \in 1 .. 7 |-> ScheduledRow(rows, n0, ds, i, k)], 1) * hundredths, 100)

\* C20: in a pink block of either generator, on call n (from 0) row k takes a fresh
\* draw exactly when n is a multiple of 2^k (k = 0 .. 6) and otherwise keeps its
\* value, and the sample is the sum of the seven rows times 0.05 (engine) or 0.15
\* (legacy generator).
C20_PinkSchedule ==
    [][/\ (GenerateAudioPlaying /\ currentNoiseType = "pink") =>
              \E ds \in Blocks :
                  LET rows == noiseStates.pink.generators
                      n0 == noiseStates.pink.counters[1]
                  IN /\ \A i \in 1 .. BufferLength :
                            outputL'[i] = ScheduledSample(rows, n0, ds, i, 5)
                     /\ \A k \in 1 .. 7 :
                            noiseStates'.pink.generators[k] =
                                ScheduledRow(rows, n0, ds, BufferLength, k)
       /\ (GeneratorRender /\ generator.currentNoiseType = "pink") =>
              \E ds \in Blocks :
                  LET rows == generator.pinkNoiseState
                      n0 == generator.pinkNoiseCounters[1]
                  IN /\ \A i \in 1 .. BufferLength :
                            generator'.output[i] = ScheduledSample(rows, n0, ds, i, 15)
                     /\ \A k \in 1 .. 7 :
                            generator'.pinkNoiseState[k] =
                                ScheduledRow(rows, n0, ds, BufferLength, k)]_vars

\* The engine has made calls 0 .. 63: the slowest row still holds its draw of call 0
\* while the row before it drew again at call 32; the legacy generator has rendered
\* two pink blocks, its third row held since call 0.
C20_Witness ==
    /\ noiseStates.pink.counters[1] = 64
    /\ noiseStates.pink.generators[7] # noiseStates.pink.generators[6]
    /\ generator.currentNoiseType = "pink"
    /\ generator.pinkNoiseCounters[1] = 2 * BufferLength
    /\ generator.pinkNoiseState[1] # generator.pinkNoiseState[3]

\* C21: the curve the saturation node holds, for the default amount and for every
\* amount the knob has set, is non-decreasing, odd-symmetric about the middle sample
\* and stays within [-1, 1].
C21_SaturationCurveBounded ==
    fx.satCurve # Null =>
        /\ \A i, j \in CurveIndices :
               i <= j => CreateSaturationCurve(fx.satCurve, i)
                             <= CreateSaturationCurve(fx.satCurve, j)
        /\ CreateSaturationCurve(fx.satCurve, CurveSamples \div 4)
               = 0 - CreateSaturationCurve(fx.satCurve, 3 * (CurveSamples \div 4))
        /\ \A i \in CurveIndices :
               /\ CreateSaturationCurve(fx.satCurve, i) >= 0 - Milli
               /\ CreateSaturationCurve(fx.satCurve, i) <= Milli

\* C22: when the reverb control sets the mix w (the slider value over 100), the dry
\* and wet gains follow the equal-power law: dry^2 = 1 - w and wet^2 = w.
C22_ReverbEqualPower ==
    [][(fx.reverbGain # Null /\ fx'.reverbGain # fx.reverbGain) =>
          LET w == fxSlider'["reverb"]
          IN /\ fx'.dryGain * fx'.dryGain = (100 - w) * 10000
             /\ fx'.reverbGain * fx'.reverbGain = w * 10000]_vars

C24_CountdownCompletes ==
    /\ [][/\ timer'.completed # timer.completed =>
                \/ timer'.completed = 0
                \/ /\ timer.isActive
                   /\ timer.timerInterval \in LiveIntervals(Page)
                   /\ timer.completed = 0
                   /\ timer'.completed = 1
                   /\ timer'.ticks = timer.totalTime
                   /\ timer'.ticks = timer.ticks + 1
                   /\ app'.events = app.events
                   /\ ~timer'.isActive
                   /\ LiveIntervalsAfter = {}
          /\ (timer.isActive /\ timer'.ticks = timer.totalTime
                 /\ timer'.ticks # timer.ticks) => timer'.completed = 1]_vars
    /\ \A e \in 0 .. MaxAppEvents + 1 :
          (timer.isActive /\ timer.timerInterval # 0 /\ app.events = e)
              ~> \/ timer.completed = 1 /\ ~timer.isActive /\ timer.ticks = 60
                 \/ app.events > e

\* A timer that ran all its sixty ticks after the last call and has completed.
C24_Witness ==
    /\ timer.completed = 1
    /\ timer.ticks = 60
    /\ ~timer.isActive
    /\ app.events = 1

\* C25: during playback an active timer is never left without its tick interval, so a
\* timer paused with the playback counts down again once play() has resumed it.
C25_TimerResumesWithPlay ==
    (app.isPlaying /\ timer.isActive) => timer.timerInterval \in LiveIntervals(Page)

\* C26: whenever the app is not playing no tick interval is scheduled, so the timer
\* does not count down and onComplete does not fire while the playback is stopped.
C26_TimerTicksOnlyWhilePlaying ==
    ~app.isPlaying => LiveIntervals(Page) = {}

\* C27: once every pending timeout has run, the app and the generator agree on whether
\* noise is playing, whatever the order of play, pause and the noise buttons was.
C27_AppAndGeneratorAgree ==
    scheduled = {} => app.isPlaying = generator.isPlaying

\* C28: in every state of the engine, whatever togglePlayback invocations are running
\* or suspended, isPlaying is true only when the audio graph is built: the script
\* processor is connected, the EQ bands exist and the master gain exists.
C28_PlayingOnlyWithGraph ==
    isPlaying => (scriptNode = "connected" /\ eqBands # <<>> /\ masterGain # RatNull)

=============================================================================
